---- MODULE Spec2Model ----
(***************************************************************************)
(* CodebaseLister (codebaselister/main.py): walk a directory tree, filter  *)
(* it with the .gitignore rules of the base path, and write one listing    *)
(* file with the content of every file that was kept.                      *)
(*                                                                         *)
(* Strings are sequences of one-character strings, so that os.path.join,   *)
(* the comparison path == output_filename, len(content) and the glob       *)
(* matching of pathspec work on characters as they do in Python.           *)
(***************************************************************************)
EXTENDS Integers, Sequences, FiniteSets, TLC

VARIABLES
    base_path,        \* self.base_path
    use_gitignore,    \* self.use_gitignore
    output_filename,  \* self.output_filename
    fs,               \* the filesystem: resolved path -> [content, readable]
    call,             \* the method the caller runs
    pc,               \* position inside the running method
    spec,             \* list_files: the loaded PathSpec (None or its patterns)
    walk,             \* list_files: what os.walk still has to deliver
    yielded,          \* the paths list_files has yielded in this call
    chars_count,      \* _read_files_content: chars_count
    contents,         \* _read_files_content: contents
    idx,              \* generate_listing_file: enumerate index of the write loop
    written,          \* the (path, body) blocks this call wrote to outfile
    result,           \* what the call returned or raised
    run,              \* number of the current call
    prev_yielded      \* the paths yielded by the previous call

vars == <<base_path, use_gitignore, output_filename, fs, call, pc, spec, walk,
          yielded, chars_count, contents, idx, written, result, run,
          prev_yielded>>

----------------------------------------------------------------------------
(* Bounds of the model. *)

\* most files (besides .gitignore) in a tree of a generate_listing_file run
MaxFiles == 2
\* most files (besides .gitignore) in a tree of a list_files run
MaxListFiles == 2
\* most lines of the .gitignore of a list_files run
MaxRules == 2
\* most lines of the .gitignore of a generate_listing_file run
MaxGenRules == 1
\* calls of generate_listing_file in a row
MaxRuns == 2

----------------------------------------------------------------------------
(* String literals. *)

GITIGNORE == <<".", "g", "i", "t", "i", "g", "n", "o", "r", "e">>
A_TXT == <<"a", ".", "t", "x", "t">>
B_LOG == <<"b", ".", "l", "o", "g">>
KEEP_LOG == <<"k", "e", "e", "p", ".", "l", "o", "g">>
OTHER_LOG == <<"o", "t", "h", "e", "r", ".", "l", "o", "g">>
LOCKED_BIN == <<"l", "o", "c", "k", "e", "d", ".", "b", "i", "n">>
SUB == <<"s", "u", "b">>
HELLO == <<"h", "e", "l", "l", "o">>
LOGDATA == <<"l", "o", "g", " ", "l", "i", "n", "e">>
KEPT == <<"k", "e", "p", "t">>
OTHERDATA == <<"o", "t", "h", "e", "r">>
NESTED == <<"n", "e", "s", "t", "e", "d">>
DOT == <<".">>
PROJ == <<"p", "r", "o", "j">>
OUT_TXT == <<"o", "u", "t", ".", "t", "x", "t">>
DOT_OUT_TXT == <<".", "/", "o", "u", "t", ".", "t", "x", "t">>
PROJ_OUT_TXT == <<"p", "r", "o", "j", "/", "o", "u", "t", ".", "t", "x", "t">>
RULE_LOG == <<"*", ".", "l", "o", "g">>
RULE_KEEP == <<"!", "k", "e", "e", "p", ".", "l", "o", "g">>
RULE_ROOT_A == <<"/", "a", ".", "t", "x", "t">>
RULE_A == <<"a", ".", "t", "x", "t">>
RULE_PROJ == <<"p", "r", "o", "j">>
ERROR_PREFIX == <<"E", "r", "r", "o", "r", " ", "r", "e", "a", "d", "i", "n", "g", " ", "f", "i", "l", "e", ":", " ">>
EACCES == <<"[", "E", "r", "r", "n", "o", " ", "1", "3", "]", " ", "P", "e", "r", "m", "i", "s", "s", "i", "o", "n", " ", "d", "e", "n", "i", "e", "d", ":", " ">>
ENOENT == <<"[", "E", "r", "r", "n", "o", " ", "2", "]", " ", "N", "o", " ", "s", "u", "c", "h", " ", "f", "i", "l", "e", " ", "o", "r", " ", "d", "i", "r", "e", "c", "t", "o", "r", "y", ":", " ">>
HEADER_OPEN == <<"#", " ">>
HEADER_CLOSE == <<":", "\n">>
BLOCK_END == <<"\n", "\n">>
SLASH == "/"
NEWLINE == "\n"
QUOTE == <<"'">>

----------------------------------------------------------------------------
(* Python string and path primitives. *)

\* s.startswith(pre)
StartsWith(s, pre) ==
    /\ Len(pre) <= Len(s)
    /\ SubSeq(s, 1, Len(pre)) = pre

\* s[n:]
Drop(s, n) == SubSeq(s, n + 1, Len(s))

\* index of the first sep in s, 0 when there is none
RECURSIVE Find(_, _, _)
Find(s, sep, i) ==
    IF i > Len(s) THEN 0
    ELSE IF s[i] = sep THEN i
    ELSE Find(s, sep, i + 1)

\* s.split(sep)
RECURSIVE Split(_, _)
Split(s, sep) ==
    LET k == Find(s, sep, 1) IN
    IF k = 0 THEN <<s>>
    ELSE <<SubSeq(s, 1, k - 1)>> \o Split(Drop(s, k), sep)

\* the lines a text file iterates over, each with its line end
RECURSIVE FileLines(_)
FileLines(text) ==
    LET k == Find(text, NEWLINE, 1) IN
    IF text = <<>> THEN <<>>
    ELSE IF k = 0 THEN <<text>>
    ELSE <<SubSeq(text, 1, k)>> \o FileLines(Drop(text, k))

\* os.path.join(a, b)
path_join(a, b) ==
    IF b # <<>> /\ b[1] = SLASH THEN b
    ELSE IF a = <<>> \/ a[Len(a)] = SLASH THEN a \o b
    ELSE a \o <<SLASH>> \o b

\* The file a path string names: its components from the working directory,
\* without the empty and the "." components.
Resolve(path) ==
    SelectSeq(Split(path, SLASH), LAMBDA c : c # <<>> /\ c # DOT)

IsPrefix(p, q) ==
    /\ Len(p) <= Len(q)
    /\ SubSeq(q, 1, Len(p)) = p

----------------------------------------------------------------------------
(* pathspec: PathSpec.from_lines('gitwildmatch', file) and match_file.     *)

\* pattern.rstrip() of the line end
StripLine(line) ==
    IF line # <<>> /\ line[Len(line)] = NEWLINE
    THEN SubSeq(line, 1, Len(line) - 1)
    ELSE line

\* The segments of a pattern after GitWildMatchPattern's normalisation: a
\* leading empty segment (leading "/") is removed and anchors the pattern; a
\* pattern of one segment gets a leading "**"; a trailing empty segment
\* (trailing "/") becomes "**".
DOUBLE_STAR == <<"*", "*">>

Anchor(segs) ==
    IF segs[1] = <<>> THEN Tail(segs)
    ELSE IF Len(segs) = 1 \/ (Len(segs) = 2 /\ segs[2] = <<>>)
    THEN (IF segs[1] # DOUBLE_STAR THEN <<DOUBLE_STAR>> \o segs ELSE segs)
    ELSE segs

DirTail(segs) ==
    IF Len(segs) > 1 /\ segs[Len(segs)] = <<>>
    THEN SubSeq(segs, 1, Len(segs) - 1) \o <<DOUBLE_STAR>>
    ELSE segs

\* GitWildMatchPattern.pattern_to_regex: a blank line, a comment and "/" have
\* no regex (None, here the empty sequence of segments); otherwise include
\* (False for a "!" rule) and the normalised segments.
NoRegex == <<>>

pattern_to_regex(line) ==
    LET pattern == StripLine(line) IN
    IF pattern = <<>> \/ pattern[1] = "#" \/ pattern = <<SLASH>>
    THEN [include |-> FALSE, regex |-> NoRegex]
    ELSE
        LET negated == pattern[1] = "!"
            body == IF negated THEN Tail(pattern) ELSE pattern
        IN  IF body = <<>> THEN [include |-> FALSE, regex |-> NoRegex]
            ELSE [include |-> ~negated,
                  regex |-> DirTail(Anchor(Split(body, SLASH)))]

\* PathSpec.from_lines: one pattern for every line, in file order
from_lines(lines) == [i \in 1..Len(lines) |-> pattern_to_regex(lines[i])]

\* _translate_segment_glob: "*" is any run of characters of one segment, "?"
\* is one character, any other character is itself.
RECURSIVE GlobMatch(_, _)
GlobMatch(pat, name) ==
    IF pat = <<>> THEN name = <<>>
    ELSE IF pat[1] = "*"
    THEN \E k \in 0..Len(name) : GlobMatch(Tail(pat), Drop(name, k))
    ELSE /\ name # <<>>
         /\ pat[1] = "?" \/ pat[1] = name[1]
         /\ GlobMatch(Tail(pat), Tail(name))

\* A segment that is just "*" is [^/]+ : one non-empty component.
SegMatch(seg, name) ==
    IF seg = <<"*">> THEN name # <<>> ELSE GlobMatch(seg, name)

\* The regular expression of the segments, matched against the components of
\* a path: a leading or inner "**" is any number of components, a trailing
\* "**" is everything below, and a last segment also matches a directory
\* (the path may go on below it).
RECURSIVE SegsMatch(_, _)
SegsMatch(segs, comps) ==
    IF segs = <<>> THEN TRUE
    ELSE IF Head(segs) = DOUBLE_STAR
    THEN IF Len(segs) = 1
         THEN comps # <<>>
         ELSE \E k \in 0..Len(comps) : SegsMatch(Tail(segs), Drop(comps, k))
    ELSE /\ comps # <<>>
         /\ SegMatch(Head(segs), Head(comps))
         /\ SegsMatch(Tail(segs), Tail(comps))

\* util.normalize_file: a leading "/" or "./" is removed
normalize_file(file) ==
    IF StartsWith(file, <<SLASH>>) THEN Drop(file, 1)
    ELSE IF StartsWith(file, <<".", SLASH>>) THEN Drop(file, 2)
    ELSE file

\* pattern.match_file(file)
PatternMatches(pattern, file) ==
    /\ pattern.regex # NoRegex
    /\ SegsMatch(pattern.regex, Split(normalize_file(file), SLASH))

\* util.check_match_file: every pattern that matches sets the outcome to its
\* include, so the last one that matches decides.
RECURSIVE check_match_file(_, _, _)
check_match_file(patterns, file, matched) ==
    IF patterns = <<>> THEN matched
    ELSE check_match_file(Tail(patterns), file,
            IF PatternMatches(Head(patterns), file)
            THEN Head(patterns).include ELSE matched)

\* PathSpec.match_file(file)
match_file(patterns, file) == check_match_file(patterns, file, FALSE)

----------------------------------------------------------------------------
(* The filesystem. A file is named by its components from the working      *)
(* directory; a directory exists when it is the working directory, the     *)
(* base path, or holds a file.                                             *)

\* the files a tree is drawn from, by their path below the base path
FileTable ==
    (<<A_TXT>> :> [content |-> HELLO, readable |-> TRUE]) @@
    (<<B_LOG>> :> [content |-> LOGDATA, readable |-> TRUE]) @@
    (<<KEEP_LOG>> :> [content |-> KEPT, readable |-> TRUE]) @@
    (<<OTHER_LOG>> :> [content |-> OTHERDATA, readable |-> TRUE]) @@
    (<<LOCKED_BIN>> :> [content |-> <<>>, readable |-> FALSE]) @@
    (<<SUB, A_TXT>> :> [content |-> NESTED, readable |-> TRUE])

\* the lines a .gitignore is drawn from
RuleLines == {RULE_LOG, RULE_KEEP, RULE_ROOT_A, RULE_A, RULE_PROJ}

BasePaths == {DOT, PROJ}

OutputNames == {OUT_TXT, DOT_OUT_TXT, PROJ_OUT_TXT}

Trees(n) == {t \in SUBSET DOMAIN FileTable : Cardinality(t) <= n}

RuleLists(n) == UNION {[1..k -> RuleLines] : k \in 0..n}

\* a .gitignore is absent, or holds its lines, each ended by a line end
RECURSIVE JoinLines(_)
JoinLines(lines) ==
    IF lines = <<>> THEN <<>>
    ELSE Head(lines) \o <<NEWLINE>> \o JoinLines(Tail(lines))

Gitignores(n) ==
    {[present |-> FALSE, text |-> <<>>]} \cup
    {[present |-> TRUE, text |-> JoinLines(l)] : l \in RuleLists(n)}

MakeFs(base, tree, gi) ==
    LET root == Resolve(base)
        gipath == root \o <<GITIGNORE>>
        dom == {root \o rel : rel \in tree} \cup
               (IF gi.present THEN {gipath} ELSE {})
    IN  [p \in dom |->
            IF p = gipath THEN [content |-> gi.text, readable |-> TRUE]
            ELSE FileTable[Drop(p, Len(root))]]

\* os.scandir(dir): the regular files and the subdirectories of a directory
FilesIn(dir) ==
    {q[Len(q)] : q \in {p \in DOMAIN fs : Len(p) = Len(dir) + 1 /\ IsPrefix(dir, p)}}

SubdirsIn(dir) ==
    {q[Len(dir) + 1] : q \in {p \in DOMAIN fs : Len(p) > Len(dir) + 1 /\ IsPrefix(dir, p)}}

DirExists(dir) ==
    \/ dir = <<>>
    \/ dir = Resolve(base_path)
    \/ \E p \in DOMAIN fs : Len(p) > Len(dir) /\ IsPrefix(dir, p)

\* the orders in which a directory may enumerate a set of entries
RECURSIVE Perms(_)
Perms(S) ==
    IF S = {} THEN {<<>>}
    ELSE UNION {{<<x>> \o p : p \in Perms(S \ {x})} : x \in S}

\* os.walk(top), top-down: the (root, files) of top, then the walk of each
\* subdirectory. The entries come in the order the filesystem enumerates
\* them, which os.walk does not sort: every order is possible.
RECURSIVE os_walk(_, _)
RECURSIVE WalkDirs(_, _, _)
os_walk(top, dir) ==
    {<<[root |-> top, files |-> fo]>> \o rest :
        fo \in Perms(FilesIn(dir)),
        rest \in UNION {WalkDirs(top, dir, ds) : ds \in Perms(SubdirsIn(dir))}}

WalkDirs(top, dir, ds) ==
    IF ds = <<>> THEN {<<>>}
    ELSE {a \o b :
            a \in os_walk(path_join(top, Head(ds)), Append(dir, Head(ds))),
            b \in WalkDirs(top, dir, Tail(ds))}

----------------------------------------------------------------------------
(* CodebaseLister *)

NoSpec == [loaded |-> FALSE, patterns |-> <<>>]

\* load_gitignore: the PathSpec of <base_path>/.gitignore, None without it
load_gitignore ==
    LET p == Resolve(path_join(base_path, GITIGNORE)) IN
    IF p \in DOMAIN fs
    THEN [loaded |-> TRUE, patterns |-> from_lines(FileLines(fs[p].content))]
    ELSE NoSpec

\* list_files, line 51: "if spec and spec.match_file(file_path): continue".
\* A PathSpec is true when it has patterns.
\* as line 51 would behave with a matcher in which the first rule that
\* matches decides
RECURSIVE first_match_file(_, _)
first_match_file(patterns, file) ==
    IF patterns = <<>> THEN FALSE
    ELSE IF PatternMatches(Head(patterns), file) THEN Head(patterns).include
    ELSE first_match_file(Tail(patterns), file)

IgnoredFirstMatch(s, file_path) ==
    /\ s.loaded
    /\ Len(s.patterns) > 0
    /\ first_match_file(s.patterns, file_path)

Ignored(s, file_path) ==
    /\ s.loaded
    /\ Len(s.patterns) > 0
    /\ match_file(s.patterns, file_path)

\* what os.walk still has to deliver, without the directories that are done
RECURSIVE Pending(_)
Pending(w) ==
    IF w = <<>> THEN <<>>
    ELSE IF Head(w).files = <<>> THEN Pending(Tail(w))
    ELSE w

\* list_files, lines 48-50: the file the loops look at next, and what is
\* left once it is taken
NextPath(w) == path_join(Head(w).root, Head(Head(w).files))

AfterNext(w) == <<[Head(w) EXCEPT !.files = Tail(@)]>> \o Tail(w)

\* read_file_content: the content, or the diagnostic of the exception
read_file_content(file_path) ==
    LET p == Resolve(file_path) IN
    IF p \notin DOMAIN fs
    THEN ERROR_PREFIX \o ENOENT \o QUOTE \o file_path \o QUOTE
    ELSE IF ~fs[p].readable
    THEN ERROR_PREFIX \o EACCES \o QUOTE \o file_path \o QUOTE
    ELSE fs[p].content

\* file_paths = self.list_files() is a generator object: it can be iterated
\* once and has no len()
file_paths_has_len == FALSE

NoResult == [kind |-> "none"]

Raised(e) == [kind |-> "raised", error |-> e]

Locals ==
    /\ spec = NoSpec
    /\ walk = <<>>
    /\ yielded = <<>>
    /\ chars_count = 0
    /\ contents = <<>>
    /\ idx = 0
    /\ written = <<>>
    /\ result = NoResult

\* a generate_listing_file call on some tree
Init ==
    /\ call = "generate_listing_file"
    /\ base_path \in BasePaths
    /\ use_gitignore \in BOOLEAN
    /\ output_filename \in OutputNames
    /\ \E t \in Trees(MaxFiles), gi \in Gitignores(MaxGenRules) :
          fs = MakeFs(base_path, t, gi)
    /\ pc = "start"
    /\ run = 1
    /\ prev_yielded = <<>>
    /\ Locals

\* a list_files call on some tree
InitList ==
    /\ call = "list_files"
    /\ base_path \in BasePaths
    /\ use_gitignore \in BOOLEAN
    /\ output_filename = OUT_TXT
    /\ \E t \in Trees(MaxListFiles), gi \in Gitignores(MaxRules) :
          fs = MakeFs(base_path, t, gi)
    /\ pc = "start"
    /\ run = 1
    /\ prev_yielded = <<>>
    /\ Locals

\* list_files, lines 43-48: the first next() of the generator loads the rules
\* and starts os.walk
list_files_start ==
    /\ pc = "start"
    /\ spec' = IF use_gitignore THEN load_gitignore ELSE NoSpec
    /\ walk' \in os_walk(base_path, Resolve(base_path))
    /\ pc' = IF call = "list_files" THEN "list" ELSE "read"
    /\ UNCHANGED <<base_path, use_gitignore, output_filename, fs, call, yielded,
                   chars_count, contents, idx, written, result, run,
                   prev_yielded>>

\* list_files, lines 48-53, driven by a caller that takes every path
list_files_next ==
    /\ pc = "list"
    /\ LET w == Pending(walk) IN
       IF w = <<>>
       THEN /\ walk' = <<>>
            /\ pc' = "done"
            /\ UNCHANGED yielded
       ELSE /\ walk' = AfterNext(w)
            /\ yielded' = IF Ignored(spec, NextPath(w)) THEN yielded
                          ELSE Append(yielded, NextPath(w))
            /\ UNCHANGED pc
    /\ UNCHANGED <<base_path, use_gitignore, output_filename, fs, call, spec,
                   chars_count, contents, idx, written, result, run,
                   prev_yielded>>

\* _read_files_content, lines 80-86: one round of "for path in file_paths",
\* the generator running up to its next file
read_files_content ==
    /\ pc = "read"
    /\ LET w == Pending(walk) IN
       IF w = <<>>
       THEN /\ walk' = <<>>
            /\ pc' = "open"
            /\ UNCHANGED <<yielded, chars_count, contents>>
       ELSE LET path == NextPath(w)
                content == read_file_content(path)
            IN  /\ walk' = AfterNext(w)
                /\ UNCHANGED pc
                /\ IF Ignored(spec, path)
                   THEN UNCHANGED <<yielded, chars_count, contents>>
                   ELSE /\ yielded' = Append(yielded, path)
                        /\ IF path = output_filename
                           THEN UNCHANGED <<chars_count, contents>>
                           ELSE /\ chars_count' = chars_count + Len(content)
                                /\ contents' = Append(contents, content)
    /\ UNCHANGED <<base_path, use_gitignore, output_filename, fs, call, spec,
                   idx, written, result, run, prev_yielded>>

\* generate_listing_file, line 91: open(self.output_filename, 'w') truncates
\* or creates the file, and raises when its directory does not exist
open_output ==
    /\ pc = "open"
    /\ LET out == Resolve(output_filename) IN
       IF out # <<>> /\ DirExists(SubSeq(out, 1, Len(out) - 1))
       THEN /\ fs' = (out :> [content |-> <<>>, readable |-> TRUE]) @@ fs
            /\ pc' = "write"
            /\ UNCHANGED result
       ELSE /\ result' = Raised("FileNotFoundError")
            /\ pc' = "done"
            /\ UNCHANGED fs
    /\ UNCHANGED <<base_path, use_gitignore, output_filename, call, spec, walk,
                   yielded, chars_count, contents, idx, written, run,
                   prev_yielded>>

\* generate_listing_file, lines 92-96: one round of
\* "for idx, path in enumerate(file_paths)" over the same generator
write_listing ==
    /\ pc = "write"
    /\ LET w == Pending(walk)
           out == Resolve(output_filename)
       IN
       IF w = <<>>
       THEN /\ pc' = "stat"
            /\ UNCHANGED <<walk, yielded, idx, fs, written, result>>
       ELSE LET path == NextPath(w) IN
            /\ walk' = AfterNext(w)
            /\ IF Ignored(spec, path)
               THEN UNCHANGED <<pc, yielded, idx, fs, written, result>>
               ELSE /\ yielded' = Append(yielded, path)
                    /\ idx' = idx + 1
                    /\ IF path = output_filename
                       THEN UNCHANGED <<pc, fs, written, result>>
                       ELSE IF idx + 1 > Len(contents)
                       THEN /\ result' = Raised("IndexError")
                            /\ pc' = "done"
                            /\ UNCHANGED <<fs, written>>
                       ELSE /\ fs' = [fs EXCEPT ![out].content =
                                        @ \o HEADER_OPEN \o path \o HEADER_CLOSE
                                          \o contents[idx + 1] \o BLOCK_END]
                            /\ written' = Append(written,
                                    [path |-> path, body |-> contents[idx + 1]])
                            /\ UNCHANGED <<pc, result>>
    /\ UNCHANGED <<base_path, use_gitignore, output_filename, call, spec,
                   chars_count, contents, run, prev_yielded>>

\* generate_listing_file, lines 98-104: os.path.getsize and the result; the
\* size is kept in bytes (file_size is this number / 1024 / 1024)
return_result ==
    /\ pc = "stat"
    /\ result' = IF file_paths_has_len
                 THEN [kind |-> "returned",
                       output_filename |-> output_filename,
                       chars_count |-> chars_count,
                       file_size_bytes |-> Len(fs[Resolve(output_filename)].content),
                       files_count |-> Len(yielded)]
                 ELSE Raised("TypeError")
    /\ pc' = "done"
    /\ UNCHANGED <<base_path, use_gitignore, output_filename, fs, call, spec,
                   walk, yielded, chars_count, contents, idx, written, run,
                   prev_yielded>>

\* the caller runs generate_listing_file again on the same object
Rerun ==
    /\ pc = "done"
    /\ call = "generate_listing_file"
    /\ run < MaxRuns
    /\ run' = run + 1
    /\ prev_yielded' = yielded
    /\ pc' = "start"
    /\ spec' = NoSpec
    /\ walk' = <<>>
    /\ yielded' = <<>>
    /\ chars_count' = 0
    /\ contents' = <<>>
    /\ idx' = 0
    /\ written' = <<>>
    /\ result' = NoResult
    /\ UNCHANGED <<base_path, use_gitignore, output_filename, fs, call>>

Next ==
    \/ list_files_start
    \/ read_files_content
    \/ open_output
    \/ write_listing
    \/ return_result
    \/ Rerun

Spec == Init /\ [][Next]_vars

NextList ==
    \/ list_files_start
    \/ list_files_next

SpecList == InitList /\ [][NextList]_vars

----------------------------------------------------------------------------
(* Vocabulary of the properties. *)

Range(q) == {q[i] : i \in 1..Len(q)}

BaseDir == Resolve(base_path)

OutFile == Resolve(output_filename)

\* the files below the base path
TreeFiles == {p \in DOMAIN fs : Len(p) > Len(BaseDir) /\ IsPrefix(BaseDir, p)}

\* the path string os.walk and os.path.join build for a file below top
RECURSIVE JoinComps(_, _)
JoinComps(top, comps) ==
    IF comps = <<>> THEN top
    ELSE JoinComps(path_join(top, Head(comps)), Tail(comps))

WalkPath(p) == JoinComps(base_path, Drop(p, Len(BaseDir)))

\* the path of a file relative to the walked root, "/"-separated
RECURSIVE RelJoin(_)
RelJoin(comps) ==
    IF Len(comps) = 1 THEN comps[1]
    ELSE comps[1] \o <<SLASH>> \o RelJoin(Tail(comps))

RelPath(p) == RelJoin(Drop(p, Len(BaseDir)))

\* the paths os.walk has not delivered yet
Waiting ==
    UNION {{path_join(walk[i].root, walk[i].files[j]) : j \in 1..Len(walk[i].files)} :
              i \in 1..Len(walk)}

\* the files list_files has looked at in this call
Visited ==
    IF pc = "start" THEN {}
    ELSE LET waiting == Waiting IN {p \in TreeFiles : WalkPath(p) \notin waiting}

\* list_files has delivered every path of this call
WalkDone == pc \notin {"start", "list", "read"}

\* the rules of <base_path>/.gitignore, in file order
GitignorePath == BaseDir \o <<GITIGNORE>>

Rules ==
    IF GitignorePath \in DOMAIN fs
    THEN from_lines(FileLines(fs[GitignorePath].content))
    ELSE <<>>

Matching(rules, file) ==
    {i \in 1..Len(rules) : PatternMatches(rules[i], file)}

Last(S) == CHOOSE i \in S : \A j \in S : j <= i

\* the last rule that matches the file is a rule without "!"
LastMatchExcludes(rules, file) ==
    LET m == Matching(rules, file) IN
    /\ m # {}
    /\ rules[Last(m)].include

Contains(text, part) ==
    \E i \in 0..(Len(text) - Len(part)) : SubSeq(text, i + 1, i + Len(part)) = part

Block(path, body) == HEADER_OPEN \o path \o HEADER_CLOSE \o body \o BLOCK_END

RECURSIVE Blocks(_)
Blocks(paths) ==
    IF paths = <<>> THEN <<>>
    ELSE Block(Head(paths), read_file_content(Head(paths))) \o Blocks(Tail(paths))

RECURSIVE BodyChars(_)
BodyChars(w) ==
    IF w = <<>> THEN 0 ELSE Len(Head(w).body) + BodyChars(Tail(w))

\* the output file was opened, written and closed in this call
OutputClosed ==
    \/ pc = "stat"
    \/ pc = "done" /\ result.kind = "returned"
    \/ pc = "done" /\ result.kind = "raised" /\ result.error = "TypeError"

\* the call is over and the output destination could be opened
FinishedWritable ==
    /\ pc = "done"
    /\ call = "generate_listing_file"
    /\ ~(result.kind = "raised" /\ result.error = "FileNotFoundError")

----------------------------------------------------------------------------
(* Properties. *)

\* C1: with the rules in use, list_files excludes a file exactly when the last
\* rule, in file order, that matches its path is a rule without "!"; a file
\* whose last matching rule is a "!" rule, or that no rule matches, is
\* yielded. With the rules "*.log", "!keep.log", keep.log is yielded and
\* other.log is not.
C1_LastMatchWins ==
    /\ use_gitignore =>
          LET rules == Rules
              kept == Range(yielded)
          IN  \A p \in Visited :
                 (WalkPath(p) \notin kept) <=> LastMatchExcludes(rules, WalkPath(p))
    /\ (/\ use_gitignore
        /\ GitignorePath \in DOMAIN fs
        /\ fs[GitignorePath].content = JoinLines(<<RULE_LOG, RULE_KEEP>>))
       => /\ BaseDir \o <<KEEP_LOG>> \in Visited
             => path_join(base_path, KEEP_LOG) \in Range(yielded)
          /\ BaseDir \o <<OTHER_LOG>> \in Visited
             => path_join(base_path, OTHER_LOG) \notin Range(yielded)

\* C1's case: under "*.log", "!keep.log" the walk is over, keep.log was yielded
\* although "*.log" matches it, and other.log was excluded.
C1_Witness ==
    /\ pc = "done"
    /\ use_gitignore
    /\ GitignorePath \in DOMAIN fs
    /\ fs[GitignorePath].content = JoinLines(<<RULE_LOG, RULE_KEEP>>)
    /\ {BaseDir \o <<KEEP_LOG>>, BaseDir \o <<OTHER_LOG>>} \subseteq Visited
    /\ Cardinality(Matching(Rules, path_join(base_path, KEEP_LOG))) = 2
    /\ path_join(base_path, KEEP_LOG) \in Range(yielded)
    /\ path_join(base_path, OTHER_LOG) \notin Range(yielded)

\* C2: once generate_listing_file has written and closed the output file, the
\* file is exactly the blocks "# <path>:", read result, blank line, of the
\* paths list_files yielded (the output file itself left out), in the order
\* they were yielded.
C2_OutputIsTheBlocks ==
    OutputClosed =>
        fs[OutFile].content =
            Blocks(SelectSeq(yielded, LAMBDA path : Resolve(path) # OutFile))

\* C3: the chars_count that generate_listing_file puts in its result is the
\* sum of the lengths of the block bodies it wrote to the output file.
C3_CharsCountIsWritten ==
    OutputClosed => chars_count = BodyChars(written)

\* C4: generate_listing_file returns a files_count that is the number of paths
\* list_files yielded in the run.
C4_FilesCountIsYielded ==
    FinishedWritable =>
        /\ result.kind = "returned"
        /\ result.files_count = Len(yielded)

\* C5: list_files never yields the output file, also when it lies inside the
\* walked tree and exists from an earlier run, and the output file holds no
\* block whose header names the output file.
C5_OutputNeverListed ==
    /\ \A path \in Range(yielded) : Resolve(path) # OutFile
    /\ OutFile \in DOMAIN fs /\ IsPrefix(BaseDir, OutFile)
       => ~Contains(fs[OutFile].content,
                    HEADER_OPEN \o WalkPath(OutFile) \o HEADER_CLOSE)

\* C6: a yielded file whose read fails still has its block in the output, with
\* the body "Error reading file: <cause>", and every path yielded after it
\* has its block too.
C6_FailedReadKeepsBlock ==
    OutputClosed =>
        \A i \in 1..Len(yielded) :
            (/\ Resolve(yielded[i]) \in DOMAIN fs
             /\ Resolve(yielded[i]) # OutFile
             /\ ~fs[Resolve(yielded[i])].readable)
            => /\ Contains(fs[OutFile].content,
                     Block(yielded[i],
                           ERROR_PREFIX \o EACCES \o QUOTE \o yielded[i] \o QUOTE))
               /\ \A j \in (i + 1)..Len(yielded) :
                     Resolve(yielded[j]) # OutFile
                     => Contains(fs[OutFile].content,
                            Block(yielded[j], read_file_content(yielded[j])))

\* C7: the only run of generate_listing_file that raises is one whose output
\* destination cannot be opened for writing; every other run returns a result.
C7_RaisesOnlyWhenUnwritable ==
    (pc = "done" /\ call = "generate_listing_file") =>
        \/ result.kind = "returned"
        \/ /\ result.kind = "raised"
           /\ result.error = "FileNotFoundError"
           /\ ~DirExists(SubSeq(OutFile, 1, Len(OutFile) - 1))

\* C8: a second run of list_files on an unchanged tree with the same rules
\* yields the same sequence of paths as the first.
C8_SameOrderOnRerun ==
    (/\ run = 2
     /\ WalkDone
     /\ ~IsPrefix(BaseDir, OutFile))
    => yielded = prev_yielded

\* C9: on a root with exactly a.txt ("hello"), b.log and a .gitignore with the
\* rule "*.log", generate_listing_file writes the one block of a.txt with the
\* body "hello" and returns files_count = 1 and chars_count = 5.
C9_Scenario ==
    (/\ run = 1
     /\ use_gitignore
     /\ DOMAIN fs \ {OutFile} =
           {BaseDir \o <<A_TXT>>, BaseDir \o <<B_LOG>>, GitignorePath}
     /\ fs[GitignorePath].content = JoinLines(<<RULE_LOG>>)
     /\ FinishedWritable)
    => /\ result.kind = "returned"
       /\ result.files_count = 1
       /\ result.chars_count = 5
       /\ fs[OutFile].content = Block(path_join(base_path, A_TXT), HELLO)

\* C10: whether list_files excludes a file is decided by the rules matched
\* against the file's path relative to the walked root, whatever base_path is.
C10_RulesSeeRootRelativePath ==
    use_gitignore =>
        LET rules == Rules
            kept == Range(yielded)
        IN  \A p \in Visited :
               (WalkPath(p) \notin kept) <=> match_file(rules, RelPath(p))

====
